---- MODULE Spec2Model ----
(***************************************************************************)
(* Model of the two-stage annotation pipeline:                             *)
(*   scripts/01_sync_magold_to_conllu.py  (lookup builder + synchronizer)  *)
(*   scripts/02_extract_adj_mod_pairs.py  (classifier + pair extractor)    *)
(*                                                                         *)
(* A Python str is a sequence of one-character strings, so that split,     *)
(* strip, join, startswith, sorted and the regular expression of           *)
(* extract_field are computed character by character as the code does.     *)
(***************************************************************************)
EXTENDS Integers, Sequences, FiniteSets, TLC

\* ------------------------------------------------------------------------
\* Bounds of the model
\* ------------------------------------------------------------------------
MaxFeats == 2
MaxMagLines == 2
MaxLines == 2
MaxTreeLines == 3

\* ------------------------------------------------------------------------
\* Characters and Python str primitives
\* ------------------------------------------------------------------------
\* The characters of the model, in code point order.
Ascii ==
  << "\t", "\n", " ", "#", "$", "*", "+", "-", ".", "/",
     "0", "1", "2", "3", "4", "5", "6", "7", "8", "9", ":", "=",
     "A", "B", "C", "D", "E", "F", "G", "H", "I", "J", "K", "L", "M",
     "N", "O", "P", "Q", "R", "S", "T", "U", "V", "W", "X", "Y", "Z", "[", "]", "_",
     "a", "b", "c", "d", "e", "f", "g", "h", "i", "j", "k", "l", "m",
     "n", "o", "p", "q", "r", "s", "t", "u", "v", "w", "x", "y", "z", "|" >>

Code(c) == CHOOSE i \in 1..Len(Ascii) : Ascii[i] = c

DigitChars == {"0", "1", "2", "3", "4", "5", "6", "7", "8", "9"}

\* str.isspace() of one character
IsSpace(c) == c \in {" ", "\t", "\n"}

\* \w of the re module: letters, digits and underscore
IsWordChar(c) ==
  \/ c \in DigitChars
  \/ c = "_"
  \/ (Code(c) >= Code("A") /\ Code(c) <= Code("Z"))
  \/ (Code(c) >= Code("a") /\ Code(c) <= Code("z"))

\* the < of Python str: lexicographic on code points
RECURSIVE StrLess(_, _)
StrLess(s, t) ==
  IF t = << >> THEN FALSE
  ELSE IF s = << >> THEN TRUE
  ELSE IF s[1] # t[1] THEN Code(s[1]) < Code(t[1])
  ELSE StrLess(Tail(s), Tail(t))

\* c in s
Contains(s, c) == \E i \in 1..Len(s) : s[i] = c

\* s.find(c) as a 1-based index (0 when absent)
Find(s, c) ==
  IF Contains(s, c)
  THEN CHOOSE i \in 1..Len(s) : s[i] = c /\ \A j \in 1..(i - 1) : s[j] # c
  ELSE 0

\* s.startswith(p)
StartsWith(s, p) == Len(s) >= Len(p) /\ SubSeq(s, 1, Len(p)) = p

\* s.lstrip() / s.rstrip() / s.strip() on whitespace
RECURSIVE LStrip(_)
LStrip(s) == IF s # << >> /\ IsSpace(s[1]) THEN LStrip(Tail(s)) ELSE s

RECURSIVE RStrip(_)
RStrip(s) ==
  IF s # << >> /\ IsSpace(s[Len(s)]) THEN RStrip(SubSeq(s, 1, Len(s) - 1)) ELSE s

Strip(s) == RStrip(LStrip(s))

\* s.lstrip(c): every leading occurrence of c is removed
RECURSIVE LStripChar(_, _)
LStripChar(s, c) == IF s # << >> /\ s[1] = c THEN LStripChar(Tail(s), c) ELSE s

\* s.split(c): always at least one piece
RECURSIVE Split(_, _)
Split(s, c) ==
  IF Contains(s, c)
  THEN << SubSeq(s, 1, Find(s, c) - 1) >> \o Split(SubSeq(s, Find(s, c) + 1, Len(s)), c)
  ELSE << s >>

\* s.split(c, 1): one or two pieces
Split1(s, c) ==
  IF Contains(s, c)
  THEN << SubSeq(s, 1, Find(s, c) - 1), SubSeq(s, Find(s, c) + 1, Len(s)) >>
  ELSE << s >>

\* c.join(parts)
RECURSIVE Join(_, _)
Join(parts, c) ==
  IF parts = << >> THEN << >>
  ELSE IF Len(parts) = 1 THEN parts[1]
  ELSE parts[1] \o << c >> \o Join(Tail(parts), c)

\* sorted(S) for a set of str
RECURSIVE Sorted(_)
Sorted(S) ==
  IF S = {} THEN << >>
  ELSE LET m == CHOOSE x \in S : \A y \in S \ {x} : StrLess(x, y)
       IN  << m >> \o Sorted(S \ {m})

\* a dict of str to str is a function on its key set
EmptyDict == [k \in {} |-> << >>]

DictSet(d, k, v) == [x \in DOMAIN d \cup {k} |-> IF x = k THEN v ELSE d[x]]

\* d.get(k), with None for a missing key
None == << "None" >>

DictGet(d, k) == IF k \in DOMAIN d THEN d[k] ELSE None

\* ------------------------------------------------------------------------
\* Attribute-map codec (script 01)
\* ------------------------------------------------------------------------
\* the loop  for part in s.split("|"): if "=" in part: k, v = part.split("=", 1); d[k] = v
RECURSIVE KeyValueLoop(_, _)
KeyValueLoop(parts, d) ==
  IF parts = << >> THEN d
  ELSE IF Contains(parts[1], "=")
       THEN KeyValueLoop(Tail(parts),
                         DictSet(d, Split1(parts[1], "=")[1], Split1(parts[1], "=")[2]))
       ELSE KeyValueLoop(Tail(parts), d)

parse_feats(feats) ==
  IF Strip(feats) \in { << >>, << "_" >> } THEN EmptyDict
  ELSE KeyValueLoop(Split(Strip(feats), "|"), EmptyDict)

\* the items in descending key order, as if sorted() were missing or reversed
FormatItemsReversed(d) ==
  [i \in 1..Cardinality(DOMAIN d) |->
     Sorted(DOMAIN d)[Cardinality(DOMAIN d) + 1 - i] \o << "=" >>
       \o d[Sorted(DOMAIN d)[Cardinality(DOMAIN d) + 1 - i]]]

FormatItems(d) ==
  [i \in 1..Cardinality(DOMAIN d) |->
     Sorted(DOMAIN d)[i] \o << "=" >> \o d[Sorted(DOMAIN d)[i]]]

format_feats(d) ==
  IF DOMAIN d = {} THEN << "_" >> ELSE Join(FormatItems(d), "|")

parse_misc(misc) ==
  IF Strip(misc) \in { << >>, << "_" >> } THEN EmptyDict
  ELSE KeyValueLoop(Split(Strip(misc), "|"), EmptyDict)

\* ------------------------------------------------------------------------
\* Morphological lookup builder (script 01)
\* ------------------------------------------------------------------------
\* MAGOLD_ANALYSIS_RE.match(line): the line begins with "*"
AnalysisMatch(line) == StartsWith(line, << "*" >>)

\* the pattern \b<key>:([^\s]+) matches at position i of line
FieldMatchAt(line, key, i) ==
  /\ i + Len(key) + 1 <= Len(line)
  /\ SubSeq(line, i, i + Len(key) - 1) = key
  /\ line[i + Len(key)] = ":"
  /\ ~IsSpace(line[i + Len(key) + 1])
  /\ (i = 1 \/ ~IsWordChar(line[i - 1]))

\* the longest run of non-whitespace characters of line that starts at i
RECURSIVE NonSpaceRun(_, _)
NonSpaceRun(line, i) ==
  IF i > Len(line) \/ IsSpace(line[i]) THEN << >>
  ELSE << line[i] >> \o NonSpaceRun(line, i + 1)

\* re.search: group 1 of the leftmost match, None without a match
extract_field(line, key) ==
  IF \E i \in 1..Len(line) : FieldMatchAt(line, key, i)
  THEN LET i == CHOOSE i \in 1..Len(line) :
                  /\ FieldMatchAt(line, key, i)
                  /\ \A j \in 1..(i - 1) : ~FieldMatchAt(line, key, j)
       IN  NonSpaceRun(line, i + Len(key) + 1)
  ELSE None

\* only one leading "+" removed
BwTokenOnePlus(bw_full) ==
  IF Split1(bw_full, "/")[1] # << >> /\ Split1(bw_full, "/")[1][1] = "+"
  THEN Tail(Split1(bw_full, "/")[1])
  ELSE Split1(bw_full, "/")[1]

\* bw_full.split("/", 1)[0].lstrip("+")
BwToken(bw_full) == LStripChar(Split1(bw_full, "/")[1], "+")

\* gen in (None, "na") or num in (None, "na") or rat in (None, "na")
Unusable(gen, num, rat) ==
  \/ gen \in {None, << "n", "a" >>}
  \/ num \in {None, << "n", "a" >>}
  \/ rat \in {None, << "n", "a" >>}

\* a key once stored is kept: first write wins
StoreKeyFirstWins(lookup, key, val) ==
  IF key \in DOMAIN lookup THEN lookup ELSE DictSet(lookup, key, val)

\* lookup[key] = val
StoreKey(lookup, key, val) == DictSet(lookup, key, val)

\* one iteration of the loop of build_magold_lookup over a raw line
MagoldLine(lookup, raw) ==
  LET line == Strip(raw)
      gen == extract_field(line, << "g", "e", "n" >>)
      num == extract_field(line, << "n", "u", "m" >>)
      rat == extract_field(line, << "r", "a", "t" >>)
      diac == extract_field(line, << "d", "i", "a", "c" >>)
      bw_full == extract_field(line, << "b", "w" >>)
      bw_tok == IF bw_full # None THEN BwToken(bw_full) ELSE None
      val == << gen, num, rat >>
      withDiac == IF diac # None THEN StoreKey(lookup, diac, val) ELSE lookup
  IN  IF line = << >> \/ ~AnalysisMatch(line) THEN lookup
      ELSE IF Unusable(gen, num, rat) THEN lookup
      ELSE IF bw_tok # None /\ bw_tok # << >> THEN StoreKey(withDiac, bw_tok, val)
      ELSE withDiac

\* build_magold_lookup over the lines of the analysis file
RECURSIVE LookupLoop(_, _)
LookupLoop(lines, lookup) ==
  IF lines = << >> THEN lookup
  ELSE LookupLoop(Tail(lines), MagoldLine(lookup, lines[1]))

build_magold_lookup(lines) == LookupLoop(lines, EmptyDict)

\* ------------------------------------------------------------------------
\* Analysis lines the model draws the analysis file from
\* ------------------------------------------------------------------------
\* '*1.0 diac:XYZ bw:ADJ/XYZ+a gen:f num:p rat:i'
MagExample ==
  << "*", "1", ".", "0", " ", "d", "i", "a", "c", ":", "X", "Y", "Z", " ",
  "b", "w", ":", "A", "D", "J", "/", "X", "Y", "Z", "+", "a", " ", "g",
  "e", "n", ":", "f", " ", "n", "u", "m", ":", "p", " ", "r", "a", "t",
  ":", "i" >>

\* '*diac:XYZ gen:m num:s rat:r'
MagMasc ==
  << "*", "d", "i", "a", "c", ":", "X", "Y", "Z", " ", "g", "e", "n", ":",
  "m", " ", "n", "u", "m", ":", "s", " ", "r", "a", "t", ":", "r" >>

\* '*bw:++Q/N gen:m num:s rat:i'
MagPlusPlus ==
  << "*", "b", "w", ":", "+", "+", "Q", "/", "N", " ", "g", "e", "n", ":",
  "m", " ", "n", "u", "m", ":", "s", " ", "r", "a", "t", ":", "i" >>

\* '*diac:XYZ gen:na num:s rat:i'
MagNa ==
  << "*", "d", "i", "a", "c", ":", "X", "Y", "Z", " ", "g", "e", "n", ":",
  "n", "a", " ", "n", "u", "m", ":", "s", " ", "r", "a", "t", ":", "i" >>

\* '*diac:XYZ gen:f num:p'
MagNoRat ==
  << "*", "d", "i", "a", "c", ":", "X", "Y", "Z", " ", "g", "e", "n", ":",
  "f", " ", "n", "u", "m", ":", "p" >>

\* 'diac:XYZ gen:f num:p rat:i'
MagNoStar ==
  << "d", "i", "a", "c", ":", "X", "Y", "Z", " ", "g", "e", "n", ":", "f",
  " ", "n", "u", "m", ":", "p", " ", "r", "a", "t", ":", "i" >>

\* ' *bw:+XYZ/N gen:m num:d rat:i'
MagIndented ==
  << " ", "*", "b", "w", ":", "+", "X", "Y", "Z", "/", "N", " ", "g", "e",
  "n", ":", "m", " ", "n", "u", "m", ":", "d", " ", "r", "a", "t", ":", "i"
  >>

\* '*bw:+/N gen:f num:p rat:i'
MagEmptyBw ==
  << "*", "b", "w", ":", "+", "/", "N", " ", "g", "e", "n", ":", "f", " ",
  "n", "u", "m", ":", "p", " ", "r", "a", "t", ":", "i" >>

\* ''
MagBlank ==
  << >>

\* '*diac:XYZ gen:f|x num:p rat:i'
MagPipe ==
  << "*", "d", "i", "a", "c", ":", "X", "Y", "Z", " ", "g", "e", "n", ":",
  "f", "|", "x", " ", "n", "u", "m", ":", "p", " ", "r", "a", "t", ":", "i"
  >>

MagLineSet ==
  { MagExample, MagMasc, MagPlusPlus, MagNa, MagNoRat, MagNoStar,
    MagIndented, MagEmptyBw, MagBlank, MagPipe }

\* all sequences over S of length at most n
SeqsUpTo(S, n) == UNION { [1..k -> S] : k \in 0..n }

\* ------------------------------------------------------------------------
\* Feature synchronizer (script 01)
\* ------------------------------------------------------------------------
GEN == << "g", "e", "n" >>
NUM == << "n", "u", "m" >>
RAT == << "r", "a", "t" >>

\* 'surface_plus_bw'
SURFACE_PLUS_BW ==
  << "s", "u", "r", "f", "a", "c", "e", "_", "p", "l", "u", "s", "_", "b",
  "w" >>

\* 'surface_form_bw'
SURFACE_FORM_BW ==
  << "s", "u", "r", "f", "a", "c", "e", "_", "f", "o", "r", "m", "_", "b",
  "w" >>

choose_conllu_key(misc) ==
  IF SURFACE_PLUS_BW \in DOMAIN misc THEN misc[SURFACE_PLUS_BW]
  ELSE IF SURFACE_FORM_BW \in DOMAIN misc THEN misc[SURFACE_FORM_BW]
  ELSE None

\* debug_targets
debug_targets ==
  { << "m", "$", "A", "k", "l" >>,
    << "m", "a", "$", "A", "k", "i", "l", "a" >>,
    << "m", "a", "$", "A", "k", "i", "l" >> }

\* '[CONLLU] key='
DebugConlluPrefix ==
  << "[", "C", "O", "N", "L", "L", "U", "]", " ", "k", "e", "y", "=" >>

DebugFeatsBefore == << " ", "f", "e", "a", "t", "s", "_", "b", "e", "f", "o", "r", "e", "=" >>
DebugMisc == << " ", "m", "i", "s", "c", "=" >>

\* '[UPDATED] key='
DebugUpdatedPrefix ==
  << "[", "U", "P", "D", "A", "T", "E", "D", "]", " ", "k", "e", "y", "="
  >>

DebugFeatsAfter == << " ", "f", "e", "a", "t", "s", "_", "a", "f", "t", "e", "r", "=" >>

\* every hit counts as a change
ChangedAlways(feats, mag_val) == TRUE

\* changed: some of gen, num, rat differs from the lookup's triple
Changed(feats, mag_val) ==
  \/ DictGet(feats, GEN) # mag_val[1]
  \/ DictGet(feats, NUM) # mag_val[2]
  \/ DictGet(feats, RAT) # mag_val[3]

\* the feature map is replaced by the triple instead of being merged with it
MergeTripleOnly(feats, mag_val) ==
  DictSet(DictSet(DictSet(EmptyDict, GEN, mag_val[1]), NUM, mag_val[2]), RAT, mag_val[3])

\* the three conditional assignments feats["gen"|"num"|"rat"] = new value
MergeTriple(feats, mag_val) ==
  LET f1 == IF DictGet(feats, GEN) # mag_val[1] THEN DictSet(feats, GEN, mag_val[1]) ELSE feats
      f2 == IF DictGet(f1, NUM) # mag_val[2] THEN DictSet(f1, NUM, mag_val[2]) ELSE f1
  IN  IF DictGet(f2, RAT) # mag_val[3] THEN DictSet(f2, RAT, mag_val[3]) ELSE f2

\* cols with cols[5] replaced, joined by tabs
RebuildLine(cols, feats) ==
  Join([i \in 1..Len(cols) |-> IF i = 6 THEN format_feats(feats) ELSE cols[i]], "\t")

\* not ln.strip() or ln.startswith("#")
BlankOrComment(ln) == Strip(ln) = << >> \/ StartsWith(ln, << "#" >>)

\* the key passes "if not key" and "if not mag_val"
KeyHits(key, mag_lookup) == key # None /\ key # << >> /\ key \in DOMAIN mag_lookup

\* one iteration of the loop of sync_conllu_with_magold over the line ln:
\* the line appended to out, the increments of the two counters and the
\* entries appended to debug_hits
SyncLineResult(ln, mag_lookup) ==
  LET cols == Split(ln, "\t")
      feats_str == cols[6]
      misc_str == cols[10]
      feats == parse_feats(feats_str)
      misc == parse_misc(misc_str)
      key == choose_conllu_key(misc)
      mag_val == mag_lookup[key]
      merged == MergeTriple(feats, mag_val)
      dbgConllu ==
        IF key # None /\ key # << >> /\ key \in debug_targets
        THEN << DebugConlluPrefix \o key \o DebugFeatsBefore \o feats_str
                  \o DebugMisc \o misc_str >>
        ELSE << >>
      dbgUpdated ==
        IF key \in debug_targets
        THEN << DebugUpdatedPrefix \o key \o DebugFeatsAfter \o format_feats(merged) >>
        ELSE << >>
  IN  IF BlankOrComment(ln) \/ Len(cols) < 10
      THEN [line |-> ln, matched |-> 0, updated |-> 0, debug |-> << >>]
      ELSE IF ~KeyHits(key, mag_lookup)
      THEN [line |-> ln, matched |-> 0, updated |-> 0, debug |-> dbgConllu]
      ELSE IF Changed(feats, mag_val)
      THEN [line |-> RebuildLine(cols, merged), matched |-> 1, updated |-> 1,
            debug |-> dbgConllu \o dbgUpdated]
      ELSE [line |-> ln, matched |-> 1, updated |-> 0, debug |-> dbgConllu]

\* sync_conllu_with_magold as a whole: (out, matched, updated, debug_hits)
RECURSIVE SyncLoop(_, _, _)
SyncLoop(lines, mag_lookup, acc) ==
  IF lines = << >> THEN acc
  ELSE LET r == SyncLineResult(lines[1], mag_lookup)
       IN  SyncLoop(Tail(lines), mag_lookup,
                    [out |-> Append(acc.out, r.line),
                     matched |-> acc.matched + r.matched,
                     updated |-> acc.updated + r.updated,
                     debug_hits |-> acc.debug_hits \o r.debug])

sync_conllu_with_magold(conllu_lines, mag_lookup) ==
  SyncLoop(conllu_lines, mag_lookup,
           [out |-> << >>, matched |-> 0, updated |-> 0, debug_hits |-> << >>])

\* ------------------------------------------------------------------------
\* Tree lines the model draws the tree file from
\* ------------------------------------------------------------------------
\* '1\tABC\tlemma1\tNOM\tNOM\tgen=m|num=s\t2\tMOD\t_\tsurface_plus_bw=XYZ'
TokAdj ==
  << "1", "\t", "A", "B", "C", "\t", "l", "e", "m", "m", "a", "1", "\t",
  "N", "O", "M", "\t", "N", "O", "M", "\t", "g", "e", "n", "=", "m", "|",
  "n", "u", "m", "=", "s", "\t", "2", "\t", "M", "O", "D", "\t", "_", "\t",
  "s", "u", "r", "f", "a", "c", "e", "_", "p", "l", "u", "s", "_", "b",
  "w", "=", "X", "Y", "Z" >>

\* '2\tDEF\tlemma2\tNOM\tNOM\t_\t0\tROOT\t_\tbw=NOUN_head'
TokNoun ==
  << "2", "\t", "D", "E", "F", "\t", "l", "e", "m", "m", "a", "2", "\t",
  "N", "O", "M", "\t", "N", "O", "M", "\t", "_", "\t", "0", "\t", "R", "O",
  "O", "T", "\t", "_", "\t", "b", "w", "=", "N", "O", "U", "N", "_", "h",
  "e", "a", "d" >>

\* '1\tA\t_\t_\t_\trat=i|gen=m|num=p|gen=f\t2\tMOD\t_\tsurface_form_bw=XYZ'
TokSynced ==
  << "1", "\t", "A", "\t", "_", "\t", "_", "\t", "_", "\t", "r", "a", "t",
  "=", "i", "|", "g", "e", "n", "=", "m", "|", "n", "u", "m", "=", "p",
  "|", "g", "e", "n", "=", "f", "\t", "2", "\t", "M", "O", "D", "\t", "_",
  "\t", "s", "u", "r", "f", "a", "c", "e", "_", "f", "o", "r", "m", "_",
  "b", "w", "=", "X", "Y", "Z" >>

\* '1-2\tA\t_\t_\t_\tgen=m\t_\t_\t_\tsurface_plus_bw=XYZ'
TokSpan ==
  << "1", "-", "2", "\t", "A", "\t", "_", "\t", "_", "\t", "_", "\t", "g",
  "e", "n", "=", "m", "\t", "_", "\t", "_", "\t", "_", "\t", "s", "u", "r",
  "f", "a", "c", "e", "_", "p", "l", "u", "s", "_", "b", "w", "=", "X",
  "Y", "Z" >>

\* '3\tA\t_\t_\t_\t_\t0\t_\t_\tsurface_form_bw=XYZ|surface_plus_bw=Q'
TokBoth ==
  << "3", "\t", "A", "\t", "_", "\t", "_", "\t", "_", "\t", "_", "\t", "0",
  "\t", "_", "\t", "_", "\t", "s", "u", "r", "f", "a", "c", "e", "_", "f",
  "o", "r", "m", "_", "b", "w", "=", "X", "Y", "Z", "|", "s", "u", "r",
  "f", "a", "c", "e", "_", "p", "l", "u", "s", "_", "b", "w", "=", "Q" >>

\* '4\tA\t_\t_\t_\tb=1| a=2\t0\t_\t_\tsurface_plus_bw=XYZ'
TokSpaceKey ==
  << "4", "\t", "A", "\t", "_", "\t", "_", "\t", "_", "\t", "b", "=", "1",
  "|", " ", "a", "=", "2", "\t", "0", "\t", "_", "\t", "_", "\t", "s", "u",
  "r", "f", "a", "c", "e", "_", "p", "l", "u", "s", "_", "b", "w", "=",
  "X", "Y", "Z" >>

\* '5\tA\t_\t_\t_\t_\t0\t_\t_\tsurface_plus_bw=|surface_form_bw=XYZ'
TokEmptyKey ==
  << "5", "\t", "A", "\t", "_", "\t", "_", "\t", "_", "\t", "_", "\t", "0",
  "\t", "_", "\t", "_", "\t", "s", "u", "r", "f", "a", "c", "e", "_", "p",
  "l", "u", "s", "_", "b", "w", "=", "|", "s", "u", "r", "f", "a", "c",
  "e", "_", "f", "o", "r", "m", "_", "b", "w", "=", "X", "Y", "Z" >>

\* '# s'
LineComment ==
  << "#", " ", "s" >>

\* ''
LineBlank ==
  << >>

\* '1\tA\t_'
LineShort ==
  << "1", "\t", "A", "\t", "_" >>

TreeLineSet ==
  { TokAdj, TokNoun, TokSynced, TokSpan, TokBoth, TokSpaceKey, TokEmptyKey,
    LineComment, LineBlank, LineShort }

\* lookups the builder produces from one analysis line (or none)
LookupSet == { build_magold_lookup(ms) : ms \in SeqsUpTo(MagLineSet, 1) }

\* ------------------------------------------------------------------------
\* Dependency classifier and pair extractor (script 02)
\* ------------------------------------------------------------------------
BW == << "b", "w" >>
MADA == << "m", "a", "d", "a" >>
KULICK == << "k", "u", "l", "i", "c", "k" >>
ADJ == << "A", "D", "J" >>
NOUN == << "N", "O", "U", "N" >>
MOD == << "M", "O", "D" >>

parse_misc_02(misc) ==
  IF Strip(misc) \in { << >>, << "_" >> } THEN EmptyDict
  ELSE KeyValueLoop(Split(Strip(misc), "|"), EmptyDict)

parse_feats_02(feats) ==
  IF Strip(feats) \in { << >>, << "_" >> } THEN EmptyDict
  ELSE KeyValueLoop(Split(Strip(feats), "|"), EmptyDict)

\* misc.get(k, "")
DictGetStr(d, k) == IF k \in DOMAIN d THEN d[k] ELSE << >>

\* x in parts, for a list of str
InList(x, parts) == \E i \in 1..Len(parts) : parts[i] = x

\* receiver and argument of the first startswith are swapped
is_adj_token_Swapped(upos, xpos, misc) ==
  LET bw == DictGetStr(misc, BW)
      mada == DictGetStr(misc, MADA)
      kulick == DictGetStr(misc, KULICK)
  IN  \/ StartsWith(ADJ, bw)
      \/ mada = << "a", "d", "j" >>
      \/ kulick = << "J", "J" >>
      \/ InList(ADJ, Split(bw, "+"))

is_adj_token(upos, xpos, misc) ==
  LET bw == DictGetStr(misc, BW)
      mada == DictGetStr(misc, MADA)
      kulick == DictGetStr(misc, KULICK)
  IN  \/ StartsWith(bw, ADJ)
      \/ mada = << "a", "d", "j" >>
      \/ kulick = << "J", "J" >>
      \/ InList(ADJ, Split(bw, "+"))

is_noun_like(misc, upos, xpos) ==
  LET bw == DictGetStr(misc, BW)
      mada == DictGetStr(misc, MADA)
  IN  \/ StartsWith(bw, NOUN)
      \/ mada = << "n", "o", "u", "n" >>

\* path.read_text().splitlines(), "\n" being the only line break of the model
SplitLines(text) ==
  IF text = << >> THEN << >>
  ELSE IF text[Len(text)] = "\n"
       THEN Split(SubSeq(text, 1, Len(text) - 1), "\n")
       ELSE Split(text, "\n")

\* the loop of read_conllu_sentences, cur being the sentence under way
RECURSIVE SentenceLoop(_, _, _)
SentenceLoop(lines, cur, sentences) ==
  IF lines = << >>
  THEN IF cur # << >> THEN Append(sentences, cur) ELSE sentences
  ELSE IF Strip(lines[1]) = << >>
       THEN IF cur # << >>
            THEN SentenceLoop(Tail(lines), << >>, Append(sentences, cur))
            ELSE SentenceLoop(Tail(lines), cur, sentences)
       ELSE SentenceLoop(Tail(lines), Append(cur, lines[1]), sentences)

read_conllu_sentences(text) == SentenceLoop(SplitLines(text), << >>, << >>)

\* s.isdigit()
IsDigitStr(s) == s # << >> /\ \A i \in 1..Len(s) : s[i] \in DigitChars

\* the value of a digit character
DigitVal(c) == Code(c) - Code("0")

\* the digits of an int literal: digits, single underscores only between digits
DigitsWithUnderscores(s) ==
  /\ s # << >>
  /\ \A i \in 1..Len(s) : s[i] \in DigitChars \cup {"_"}
  /\ s[1] # "_" /\ s[Len(s)] # "_"
  /\ \A i \in 1..(Len(s) - 1) : ~(s[i] = "_" /\ s[i + 1] = "_")

\* int(s) succeeds: optional whitespace around an optionally signed literal
IsIntLiteral(s) ==
  LET t == Strip(s)
  IN  /\ t # << >>
      /\ IF t[1] \in {"+", "-"} THEN DigitsWithUnderscores(Tail(t))
         ELSE DigitsWithUnderscores(t)

RECURSIVE DigitsValue(_, _)
DigitsValue(s, acc) ==
  IF s = << >> THEN acc
  ELSE IF s[1] = "_" THEN DigitsValue(Tail(s), acc)
  ELSE DigitsValue(Tail(s), 10 * acc + DigitVal(s[1]))

\* int(s) for a literal that int accepts
ParseInt(s) ==
  LET t == Strip(s)
  IN  IF t[1] = "-" THEN 0 - DigitsValue(Tail(t), 0)
      ELSE IF t[1] = "+" THEN DigitsValue(Tail(t), 0)
      ELSE DigitsValue(t, 0)

\* str(n) for n >= 0
RECURSIVE NatToStr(_)
NatToStr(n) ==
  IF n < 10 THEN << Ascii[Code("0") + n] >>
  ELSE NatToStr(n \div 10) \o << Ascii[Code("0") + (n % 10)] >>

\* str(n)
IntToStr(n) == IF n < 0 THEN << "-" >> \o NatToStr(0 - n) ELSE NatToStr(n)

\* the id column names a multiword token or an empty node
SkippedId(tok_id) == Contains(tok_id, "-") \/ Contains(tok_id, ".")

\* parse_token_line: kind "None" for a skipped line, "ValueError" when
\* int(tok_id) raises, "token" with the record otherwise
parse_token_line(line) ==
  LET cols == Split(line, "\t")
      tok_id == cols[1]
  IN  IF StartsWith(line, << "#" >>) THEN [kind |-> "None"]
      ELSE IF Len(cols) < 10 THEN [kind |-> "None"]
      ELSE IF SkippedId(tok_id) THEN [kind |-> "None"]
      ELSE IF ~IsIntLiteral(tok_id) THEN [kind |-> "ValueError"]
      ELSE [kind |-> "token",
            id |-> ParseInt(tok_id),
            form |-> cols[2],
            lemma |-> cols[3],
            upos |-> cols[4],
            xpos |-> cols[5],
            feats_raw |-> cols[6],
            head |-> IF IsDigitStr(cols[7]) THEN ParseInt(cols[7]) ELSE 0,
            deprel |-> cols[8],
            deps |-> cols[9],
            misc_raw |-> cols[10]]

\* the token of main: the parsed record with its feats and misc maps
TokenOf(t) ==
  [id |-> t.id, form |-> t.form, lemma |-> t.lemma, upos |-> t.upos,
   xpos |-> t.xpos, feats_raw |-> t.feats_raw, head |-> t.head,
   deprel |-> t.deprel, deps |-> t.deps, misc_raw |-> t.misc_raw,
   feats |-> parse_feats_02(t.feats_raw), misc |-> parse_misc_02(t.misc_raw)]

\* the relation label is not tested
IsModifierAny(dep) == TRUE

\* dep["deprel"] != "MOD" does not skip the token
IsModifier(dep) == dep.deprel = MOD

\* head = tokens.get(head_id) is a token
HeadFound(tokens, head_id) == head_id \in DOMAIN tokens

\* the dependent dep_id of the sentence's tokens yields a pair row
EmitsPair(tokens, dep_id) ==
  LET dep == tokens[dep_id]
  IN  /\ IsModifier(dep)
      /\ is_adj_token(dep.upos, dep.xpos, dep.misc)
      /\ HeadFound(tokens, dep.head)
      /\ is_noun_like(tokens[dep.head].misc, tokens[dep.head].upos, tokens[dep.head].xpos)

\* the row appended for the dependent dep_id of sentence sent_i
PairRow(sent_i, tokens, dep_id) ==
  LET dep == tokens[dep_id]
      head == tokens[dep.head]
  IN  [sent_idx |-> IntToStr(sent_i),
       adj_id |-> IntToStr(dep_id),
       adj_form |-> dep.form,
       adj_lemma |-> dep.lemma,
       adj_feats |-> dep.feats_raw,
       adj_misc |-> dep.misc_raw,
       head_id |-> IntToStr(dep.head),
       head_form |-> head.form,
       head_lemma |-> head.lemma,
       head_feats |-> head.feats_raw,
       head_misc |-> head.misc_raw,
       deprel |-> dep.deprel]

\* ------------------------------------------------------------------------
\* Tree lines the model draws the extractor's input from
\* ------------------------------------------------------------------------
\* '1\tA\t_\t_\t_\t_\t2\tMOD\t_\tbw=ADJ'
ExAdj ==
  << "1", "\t", "A", "\t", "_", "\t", "_", "\t", "_", "\t", "_", "\t", "2",
  "\t", "M", "O", "D", "\t", "_", "\t", "b", "w", "=", "A", "D", "J" >>

\* '2\tN\t_\t_\t_\t_\t0\tROOT\t_\tbw=NOUN'
ExNoun ==
  << "2", "\t", "N", "\t", "_", "\t", "_", "\t", "_", "\t", "_", "\t", "0",
  "\t", "R", "O", "O", "T", "\t", "_", "\t", "b", "w", "=", "N", "O", "U",
  "N" >>

\* 'x\tA\t_\t_\t_\t_\t0\tMOD\t_\t_'
ExBadId ==
  << "x", "\t", "A", "\t", "_", "\t", "_", "\t", "_", "\t", "_", "\t", "0",
  "\t", "M", "O", "D", "\t", "_", "\t", "_" >>

\* '0\tN\t_\t_\t_\t_\t_\tMOD\t_\tmada=noun|kulick=JJ'
ExZero ==
  << "0", "\t", "N", "\t", "_", "\t", "_", "\t", "_", "\t", "_", "\t", "_",
  "\t", "M", "O", "D", "\t", "_", "\t", "m", "a", "d", "a", "=", "n", "o",
  "u", "n", "|", "k", "u", "l", "i", "c", "k", "=", "J", "J" >>

\* '2\tB\t_\t_\t_\t_\t1\tMOD\t_\tbw=NOUN+ADJ'
ExModNoun ==
  << "2", "\t", "B", "\t", "_", "\t", "_", "\t", "_", "\t", "_", "\t", "1",
  "\t", "M", "O", "D", "\t", "_", "\t", "b", "w", "=", "N", "O", "U", "N",
  "+", "A", "D", "J" >>

\* '3\tC\t_\t_\t_\t_\t2\tSBJ\t_\tmada=adj'
ExSubj ==
  << "3", "\t", "C", "\t", "_", "\t", "_", "\t", "_", "\t", "_", "\t", "2",
  "\t", "S", "B", "J", "\t", "_", "\t", "m", "a", "d", "a", "=", "a", "d",
  "j" >>

ExtractLineSet ==
  { ExAdj, ExNoun, ExBadId, ExZero, ExModNoun, ExSubj, TokSpan, LineComment,
    LineBlank }

\* "\n".join(out_lines) + "\n"
FileText(lines) == Join(lines, "\n") \o << "\n" >>

\* ------------------------------------------------------------------------
\* State
\* ------------------------------------------------------------------------
VARIABLES
  in01,          \* CONLLU_IN and MAGOLD_IN both exist
  conllu_in,     \* the lines of CONLLU_IN
  magold_in,     \* the lines of MAGOLD_IN
  pc1,           \* position of script 01
  lookup,        \* build_magold_lookup: the lookup under construction
  mi,            \* build_magold_lookup: index of the next analysis line
  conllu_lines,  \* sync_conllu_with_magold: its argument
  mag_lookup,    \* sync_conllu_with_magold: its argument
  out,           \* sync_conllu_with_magold: out
  matched,       \* sync_conllu_with_magold: matched
  updated,       \* sync_conllu_with_magold: updated
  debug_hits,    \* sync_conllu_with_magold: debug_hits
  si,            \* sync_conllu_with_magold: index of the next line
  run,           \* 1 for the first run of the synchronizer, 2 for a rerun
  first,         \* what the first run returned, once it is rerun
  sync_file,     \* CONLLU_OUT of script 01 (under the directory of the
                 \* repository): whether it exists, and its text
  in02_file,     \* CONLLU_IN of script 02 (under ~/Desktop/ArabicAgreementSync):
                 \* whether it exists, and its text
  same_path,     \* the repository is ~/Desktop/ArabicAgreementSync, so that the
                 \* two paths name one file
  pc2,           \* position of script 02
  sents,         \* main of script 02: sents
  sent_i,        \* main of script 02: sent_i
  li,            \* main of script 02: index of the next line of the sentence
  tokens,        \* main of script 02: tokens
  order,         \* insertion order of the keys of tokens
  di,            \* main of script 02: index of the next item of tokens
  rows,          \* main of script 02: rows
  csv,           \* adj_mod_pairs.csv: header and rows
  data,          \* read_text of script 02: the bytes read so far
  bufsize,       \* read_text of script 02: the size of the buffer
  cpc,           \* codec: position
  cm,            \* codec: the mapping
  cstr,          \* codec: format_feats of the mapping
  cback          \* codec: parse_feats of that string

vars01 ==
  << in01, conllu_in, magold_in, pc1, lookup, mi, conllu_lines, mag_lookup,
     out, matched, updated, debug_hits, si, run, first, sync_file, in02_file,
                  same_path >>

\* read_text under way
varsRead == << data, bufsize >>

vars02 == << pc2, sents, sent_i, li, tokens, order, di, rows, csv, varsRead >>

\* the size of the buffer of a read when the file is empty
SMALLCHUNK == 8192

varsCodec == << cpc, cm, cstr, cback >>

vars == << vars01, vars02, varsCodec >>

NoResult == [out |-> << >>, matched |-> 0, updated |-> 0]

NoFile == [exists |-> FALSE, text |-> << >>]

NoCsv == [exists |-> FALSE, fieldnames |-> << >>, rows |-> << >>]

\* the fixed fallback column order of the csv
FieldNames ==
  << "sent_idx", "adj_id", "adj_form", "adj_lemma", "adj_feats", "adj_misc",
     "head_id", "head_form", "head_lemma", "head_feats", "head_misc", "deprel" >>

Idle01 ==
  /\ in01 = TRUE /\ conllu_in = << >> /\ magold_in = << >>
  /\ lookup = EmptyDict /\ mi = 1
  /\ conllu_lines = << >> /\ mag_lookup = EmptyDict
  /\ out = << >> /\ matched = 0 /\ updated = 0 /\ debug_hits = << >> /\ si = 1
  /\ run = 1 /\ first = NoResult

Idle02 ==
  /\ pc2 = "start" /\ sents = << >> /\ sent_i = 1 /\ li = 1
  /\ tokens = EmptyDict /\ order = << >> /\ di = 1 /\ rows = << >> /\ csv = NoCsv
  /\ data = << >> /\ bufsize = 0

IdleCodec == cpc = "idle" /\ cm = EmptyDict /\ cstr = << >> /\ cback = EmptyDict

\* ------------------------------------------------------------------------
\* Script 01
\* ------------------------------------------------------------------------
\* main, lines 197-207: the existence check, then the two reads
Main01Start ==
  /\ pc1 = "start"
  /\ pc1' = IF in01 THEN "build" ELSE "FileNotFoundError"
  /\ lookup' = EmptyDict
  /\ mi' = 1
  /\ UNCHANGED << in01, conllu_in, magold_in, conllu_lines, mag_lookup, out,
                  matched, updated, debug_hits, si, run, first, sync_file, in02_file,
                  same_path >>
  /\ UNCHANGED << vars02, varsCodec >>

\* build_magold_lookup: one iteration of its loop
BuildLine ==
  /\ pc1 = "build"
  /\ mi <= Len(magold_in)
  /\ lookup' = MagoldLine(lookup, magold_in[mi])
  /\ mi' = mi + 1
  /\ UNCHANGED << in01, conllu_in, magold_in, pc1, conllu_lines, mag_lookup, out,
                  matched, updated, debug_hits, si, run, first, sync_file, in02_file,
                  same_path >>
  /\ UNCHANGED << vars02, varsCodec >>

\* build_magold_lookup: return lookup
BuildReturn ==
  /\ pc1 = "build"
  /\ mi > Len(magold_in)
  /\ pc1' = "built"
  /\ UNCHANGED << in01, conllu_in, magold_in, lookup, mi, conllu_lines, mag_lookup,
                  out, matched, updated, debug_hits, si, run, first, sync_file, in02_file,
                  same_path >>
  /\ UNCHANGED << vars02, varsCodec >>

\* main, line 211: the call of sync_conllu_with_magold, and its lines 129-136
Main01Sync ==
  /\ pc1 = "built"
  /\ pc1' = "sync"
  /\ conllu_lines' = conllu_in
  /\ mag_lookup' = lookup
  /\ out' = << >>
  /\ matched' = 0
  /\ updated' = 0
  /\ debug_hits' = << >>
  /\ si' = 1
  /\ UNCHANGED << in01, conllu_in, magold_in, lookup, mi, run, first, sync_file, in02_file,
                  same_path >>
  /\ UNCHANGED << vars02, varsCodec >>

\* sync_conllu_with_magold: one iteration of its loop
SyncLine ==
  /\ pc1 = "sync"
  /\ si <= Len(conllu_lines)
  /\ LET r == SyncLineResult(conllu_lines[si], mag_lookup)
     IN  /\ out' = Append(out, r.line)
         /\ matched' = matched + r.matched
         /\ updated' = updated + r.updated
         /\ debug_hits' = debug_hits \o r.debug
  /\ si' = si + 1
  /\ UNCHANGED << in01, conllu_in, magold_in, pc1, lookup, mi, conllu_lines,
                  mag_lookup, run, first, sync_file, in02_file,
                  same_path >>
  /\ UNCHANGED << vars02, varsCodec >>

\* sync_conllu_with_magold: return out, matched, updated, debug_hits
SyncReturn ==
  /\ pc1 = "sync"
  /\ si > Len(conllu_lines)
  /\ pc1' = "synced"
  /\ UNCHANGED << in01, conllu_in, magold_in, lookup, mi, conllu_lines, mag_lookup,
                  out, matched, updated, debug_hits, si, run, first, sync_file, in02_file,
                  same_path >>
  /\ UNCHANGED << vars02, varsCodec >>

\* the synchronizer is run again over what it returned, with the same lookup
Rerun ==
  /\ pc1 = "synced"
  /\ run = 1
  /\ run' = 2
  /\ first' = [out |-> out, matched |-> matched, updated |-> updated]
  /\ conllu_lines' = out
  /\ out' = << >>
  /\ matched' = 0
  /\ updated' = 0
  /\ debug_hits' = << >>
  /\ si' = 1
  /\ pc1' = "sync"
  /\ UNCHANGED << in01, conllu_in, magold_in, lookup, mi, mag_lookup, sync_file,
                  in02_file, same_path >>
  /\ UNCHANGED << vars02, varsCodec >>

\* the file left by open(mode="w"): it exists and is empty
EmptyFile == [exists |-> TRUE, text |-> << >>]

\* main, line 213, CONLLU_OUT.write_text: the file is opened for writing,
\* which creates it or truncates it
Main01Open ==
  /\ pc1 = "synced"
  /\ sync_file' = EmptyFile
  /\ in02_file' = IF same_path THEN EmptyFile ELSE in02_file
  /\ pc1' = "writing"
  /\ UNCHANGED << in01, conllu_in, magold_in, lookup, mi, conllu_lines, mag_lookup,
                  out, matched, updated, debug_hits, si, run, first, same_path >>
  /\ UNCHANGED << vars02, varsCodec >>

\* main, line 213, CONLLU_OUT.write_text: "\n".join(out_lines) + "\n" is
\* written and the file is closed
Main01Write ==
  /\ pc1 = "writing"
  /\ sync_file' = [exists |-> TRUE, text |-> FileText(out)]
  /\ in02_file' = IF same_path THEN [exists |-> TRUE, text |-> FileText(out)]
                  ELSE in02_file
  /\ pc1' = "done"
  /\ UNCHANGED << in01, conllu_in, magold_in, lookup, mi, conllu_lines, mag_lookup,
                  out, matched, updated, debug_hits, si, run, first, same_path >>
  /\ UNCHANGED << vars02, varsCodec >>

\* ------------------------------------------------------------------------
\* Script 02
\* ------------------------------------------------------------------------
\* main, lines 111-112: the existence check; script 02 is started on its
\* own, whatever script 01 has done
Main02Check ==
  /\ pc2 = "start"
  /\ pc2' = IF in02_file.exists THEN "checked" ELSE "FileNotFoundError"
  /\ UNCHANGED << sents, sent_i, li, tokens, order, di, rows, csv, varsRead >>
  /\ UNCHANGED << vars01, varsCodec >>

\* the size of the buffer when the one in use is full
new_buffersize(currentsize) ==
  LET addend == IF currentsize > 65536 THEN currentsize \div 8
                ELSE 256 + currentsize
  IN  currentsize + (IF addend < SMALLCHUNK THEN SMALLCHUNK ELSE addend)

\* the buffer one read() call is made with: a full buffer is enlarged first
BufferFor(read_so_far, size) ==
  IF Len(read_so_far) >= size THEN new_buffersize(Len(read_so_far)) ELSE size

\* one read() call at the offset Len(read_so_far): the bytes the file holds
\* now from there on, as many as the buffer has room for
ReadCall(file_text, read_so_far, size) ==
  LET n   == BufferFor(read_so_far, size) - Len(read_so_far)
      off == Len(read_so_far)
      to  == IF off + n < Len(file_text) THEN off + n ELSE Len(file_text)
  IN  SubSeq(file_text, off + 1, to)

\* read_conllu_sentences, line 73, path.read_text: the file is opened and
\* its size taken, the first buffer being one byte longer than the file
Main02Open ==
  /\ pc2 = "checked"
  /\ data' = << >>
  /\ bufsize' = IF Len(in02_file.text) > 0 THEN Len(in02_file.text) + 1
                ELSE SMALLCHUNK
  /\ pc2' = "reading"
  /\ UNCHANGED << sents, sent_i, li, tokens, order, di, rows, csv >>
  /\ UNCHANGED << vars01, varsCodec >>

\* read_conllu_sentences, line 73, path.read_text: one read() call that
\* returns bytes, of the file as it is at this call
Main02ReadChunk ==
  /\ pc2 = "reading"
  /\ ReadCall(in02_file.text, data, bufsize) # << >>
  /\ data' = data \o ReadCall(in02_file.text, data, bufsize)
  /\ bufsize' = BufferFor(data, bufsize)
  /\ UNCHANGED << pc2, sents, sent_i, li, tokens, order, di, rows, csv >>
  /\ UNCHANGED << vars01, varsCodec >>

\* read_conllu_sentences, lines 70-82, and main, lines 114-116: a read()
\* call returns nothing, which ends read_text; the sentences are those of
\* the bytes read
Main02Read ==
  /\ pc2 = "reading"
  /\ ReadCall(in02_file.text, data, bufsize) = << >>
  /\ sents' = read_conllu_sentences(data)
  /\ pc2' = IF read_conllu_sentences(data) = << >> THEN "write" ELSE "parse"
  /\ sent_i' = 1
  /\ li' = 1
  /\ tokens' = EmptyDict
  /\ order' = << >>
  /\ rows' = << >>
  /\ UNCHANGED << di, csv, varsRead >>
  /\ UNCHANGED << vars01, varsCodec >>

\* main, lines 120-126: one line of the sentence
ParseLine ==
  /\ pc2 = "parse"
  /\ li <= Len(sents[sent_i])
  /\ LET t == parse_token_line(sents[sent_i][li])
     IN  IF t.kind = "ValueError"
         THEN /\ pc2' = "ValueError"
              /\ UNCHANGED << li, tokens, order >>
         ELSE IF t.kind = "None"
         THEN /\ li' = li + 1
              /\ UNCHANGED << pc2, tokens, order >>
         ELSE /\ tokens' = DictSet(tokens, t.id, TokenOf(t))
              /\ order' = IF t.id \in DOMAIN tokens THEN order ELSE Append(order, t.id)
              /\ li' = li + 1
              /\ pc2' = pc2
  /\ UNCHANGED << sents, sent_i, di, rows, csv, varsRead >>
  /\ UNCHANGED << vars01, varsCodec >>

\* main: the lines of the sentence are exhausted, the loop over tokens begins
ParseDone ==
  /\ pc2 = "parse"
  /\ li > Len(sents[sent_i])
  /\ pc2' = "pairs"
  /\ di' = 1
  /\ UNCHANGED << sents, sent_i, li, tokens, order, rows, csv, varsRead >>
  /\ UNCHANGED << vars01, varsCodec >>

\* main, lines 128-158: one item of tokens
PairStep ==
  /\ pc2 = "pairs"
  /\ di <= Len(order)
  /\ rows' = IF EmitsPair(tokens, order[di])
             THEN Append(rows, PairRow(sent_i, tokens, order[di]))
             ELSE rows
  /\ di' = di + 1
  /\ UNCHANGED << pc2, sents, sent_i, li, tokens, order, csv, varsRead >>
  /\ UNCHANGED << vars01, varsCodec >>

\* main, line 118: the next sentence, or the end of the loop
NextSentence ==
  /\ pc2 = "pairs"
  /\ di > Len(order)
  /\ sent_i' = sent_i + 1
  /\ pc2' = IF sent_i + 1 > Len(sents) THEN "write" ELSE "parse"
  /\ li' = 1
  /\ tokens' = EmptyDict
  /\ order' = << >>
  /\ UNCHANGED << sents, di, rows, csv, varsRead >>
  /\ UNCHANGED << vars01, varsCodec >>

\* main, lines 161-166: CSV_OUT is opened for writing, which creates it or
\* truncates it
OpenCsv ==
  /\ pc2 = "write"
  /\ csv' = [exists |-> TRUE, fieldnames |-> << >>, rows |-> << >>]
  /\ pc2' = "writing"
  /\ UNCHANGED << sents, sent_i, li, tokens, order, di, rows, varsRead >>
  /\ UNCHANGED << vars01, varsCodec >>

\* main, lines 167-170: the header and the rows are written and the file
\* is closed
WriteCsv ==
  /\ pc2 = "writing"
  /\ csv' = [exists |-> TRUE, fieldnames |-> FieldNames, rows |-> rows]
  /\ pc2' = "done"
  /\ UNCHANGED << sents, sent_i, li, tokens, order, di, rows, varsRead >>
  /\ UNCHANGED << vars01, varsCodec >>

\* ------------------------------------------------------------------------
\* The codec on its own
\* ------------------------------------------------------------------------
Format ==
  /\ cpc = "start"
  /\ cstr' = format_feats(cm)
  /\ cpc' = "formatted"
  /\ UNCHANGED << cm, cback >>
  /\ UNCHANGED << vars01, vars02 >>

Parse ==
  /\ cpc = "formatted"
  /\ cback' = parse_feats(cstr)
  /\ cpc' = "parsed"
  /\ UNCHANGED << cm, cstr >>
  /\ UNCHANGED << vars01, vars02 >>

\* ------------------------------------------------------------------------
\* Specifications
\* ------------------------------------------------------------------------
KeyA == << "a" >>
KeyB == << "b" >>
KeySpaceA == << " ", "a" >>
KeyEmpty == << >>
KeyWithEq == << "a", "=", "b" >>
ValX == << "x" >>
ValEmpty == << >>
ValSpace == << "y", " " >>
ValWithPipe == << "p", "|", "q" >>
ValWithEq == << "u", "=", "v" >>

CodecKeys == { KeyA, KeyB, KeySpaceA, KeyEmpty, KeyWithEq }

CodecVals == { ValX, ValEmpty, ValSpace, ValWithPipe, ValWithEq }

CodecMaps ==
  UNION { [K -> CodecVals] : K \in { K \in SUBSET CodecKeys : Cardinality(K) <= MaxFeats } }

\* the tree files of the whole pipeline
\* '1\tABC\tlemma1\tNOM\tNOM\tgen=m|num=s\t2\tMOD\t_\tsurface_plus_bw=XYZ|bw=ADJ/XYZ+a'
TokAdjBw ==
  << "1", "\t", "A", "B", "C", "\t", "l", "e", "m", "m", "a", "1", "\t",
  "N", "O", "M", "\t", "N", "O", "M", "\t", "g", "e", "n", "=", "m", "|",
  "n", "u", "m", "=", "s", "\t", "2", "\t", "M", "O", "D", "\t", "_", "\t",
  "s", "u", "r", "f", "a", "c", "e", "_", "p", "l", "u", "s", "_", "b",
  "w", "=", "X", "Y", "Z", "|", "b", "w", "=", "A", "D", "J", "/", "X",
  "Y", "Z", "+", "a" >>

\* the analysis lines of the whole pipeline
PipeMagLineSet == { MagExample, MagMasc, MagPipe, MagNoStar }

PipeTrees ==
  { << TokAdj, TokNoun >>, << TokAdjBw, TokNoun >>, << TokNoun, LineBlank, TokAdj >> }

\* what may lie at the path script 02 reads before script 01 has run:
\* nothing, or the tree an earlier run left there
OlderFiles == { NoFile, [exists |-> TRUE, text |-> FileText(<< ExAdj, ExNoun >>)] }

\* the two scripts, each started on its own, the repository at
\* ~/Desktop/ArabicAgreementSync or elsewhere
Init ==
  /\ pc1 = "start"
  /\ in01 \in BOOLEAN
  /\ conllu_in \in (IF in01 THEN PipeTrees ELSE { << >> })
  /\ magold_in \in (IF in01 THEN SeqsUpTo(PipeMagLineSet, MaxMagLines) ELSE { << >> })
  /\ lookup = EmptyDict /\ mi = 1
  /\ conllu_lines = << >> /\ mag_lookup = EmptyDict
  /\ out = << >> /\ matched = 0 /\ updated = 0 /\ debug_hits = << >> /\ si = 1
  /\ run = 1 /\ first = NoResult
  /\ same_path \in BOOLEAN
  /\ in02_file \in OlderFiles
  /\ sync_file = IF same_path THEN in02_file ELSE NoFile
  /\ Idle02
  /\ IdleCodec

Next ==
  \/ Main01Start \/ BuildLine \/ BuildReturn \/ Main01Sync \/ SyncLine
  \/ SyncReturn \/ Main01Open \/ Main01Write
  \/ Main02Check \/ Main02Open \/ Main02ReadChunk \/ Main02Read \/ ParseLine \/ ParseDone \/ PairStep
  \/ NextSentence \/ OpenCsv \/ WriteCsv

Spec == Init /\ [][Next]_vars

\* build_magold_lookup on its own
InitLookup ==
  /\ pc1 = "build"
  /\ in01 = TRUE
  /\ conllu_in = << >>
  /\ magold_in \in SeqsUpTo(MagLineSet, MaxMagLines)
  /\ lookup = EmptyDict /\ mi = 1
  /\ conllu_lines = << >> /\ mag_lookup = EmptyDict
  /\ out = << >> /\ matched = 0 /\ updated = 0 /\ debug_hits = << >> /\ si = 1
  /\ run = 1 /\ first = NoResult
  /\ sync_file = NoFile /\ in02_file = NoFile /\ same_path = FALSE
  /\ Idle02
  /\ IdleCodec

NextLookup == BuildLine \/ BuildReturn

SpecLookup == InitLookup /\ [][NextLookup]_vars

\* sync_conllu_with_magold on its own, and rerun over its own output
InitSync ==
  /\ pc1 = "sync"
  /\ in01 = TRUE
  /\ conllu_in = << >>
  /\ magold_in = << >>
  /\ lookup = EmptyDict /\ mi = 1
  /\ conllu_lines \in SeqsUpTo(TreeLineSet, MaxLines)
  /\ mag_lookup \in LookupSet
  /\ out = << >> /\ matched = 0 /\ updated = 0 /\ debug_hits = << >> /\ si = 1
  /\ run = 1 /\ first = NoResult
  /\ sync_file = NoFile /\ in02_file = NoFile /\ same_path = FALSE
  /\ Idle02
  /\ IdleCodec

NextSync == SyncLine \/ SyncReturn \/ Rerun

SpecSync == InitSync /\ [][NextSync]_vars

\* script 02 on its own, over a tree file or without one
InitExtract ==
  /\ pc1 = "idle"
  /\ Idle01
  /\ sync_file = NoFile
  /\ same_path = FALSE
  /\ in02_file \in
       { NoFile } \cup
       { [exists |-> TRUE, text |-> FileText(ls)] :
           ls \in SeqsUpTo(ExtractLineSet, MaxTreeLines) }
  /\ Idle02
  /\ IdleCodec

NextExtract ==
  \/ Main02Check \/ Main02Open \/ Main02ReadChunk \/ Main02Read \/ ParseLine \/ ParseDone \/ PairStep
  \/ NextSentence \/ OpenCsv \/ WriteCsv

SpecExtract == InitExtract /\ [][NextExtract]_vars

\* the codec on its own
InitCodec ==
  /\ pc1 = "idle"
  /\ Idle01
  /\ sync_file = NoFile /\ in02_file = NoFile /\ same_path = FALSE
  /\ Idle02
  /\ cpc = "start"
  /\ cm \in CodecMaps
  /\ cstr = << >>
  /\ cback = EmptyDict

NextCodec == Format \/ Parse

SpecCodec == InitCodec /\ [][NextCodec]_vars

\* ------------------------------------------------------------------------
\* Properties of the codec (SpecCodec)
\* ------------------------------------------------------------------------
\* neither "|" nor "=" occurs in a key or a value of m
Simple(m) ==
  \A k \in DOMAIN m :
    /\ ~Contains(k, "|") /\ ~Contains(k, "=")
    /\ ~Contains(m[k], "|") /\ ~Contains(m[k], "=")

\* str neither begins nor ends with a whitespace character
NoOuterSpace(str) == str = << >> \/ (~IsSpace(str[1]) /\ ~IsSpace(str[Len(str)]))

\* str is the items key=value of m in ascending key order, joined by "|"
SortedJoin(str, m) ==
  \E ks \in [1..Cardinality(DOMAIN m) -> DOMAIN m] :
    /\ \A i \in 1..(Len(ks) - 1) : StrLess(ks[i], ks[i + 1])
    /\ str = Join([i \in 1..Len(ks) |-> ks[i] \o << "=" >> \o m[ks[i]]], "|")

\* the parts of C8 that do not depend on the round trip: the empty mapping
\* is serialized as "_" and parsed back as the empty mapping; a non-empty
\* mapping is serialized in ascending key order, joined by "|"
C8_Serialization ==
  /\ (cpc # "start" /\ cm = EmptyDict) => cstr = << "_" >>
  /\ (cpc = "parsed" /\ cm = EmptyDict) => cback = EmptyDict
  /\ (cpc # "start" /\ cm # EmptyDict) => SortedJoin(cstr, cm)

\* C8 as stated: parse_feats(format_feats(m)) = m for every mapping whose
\* keys and values contain neither "|" nor "="
C8_RoundTrip_AsStated ==
  /\ C8_Serialization
  /\ (cpc = "parsed" /\ Simple(cm)) => cback = cm

\* C8 (amended): parse_feats(format_feats(m)) = m for every mapping whose keys
\* and values contain neither "|" nor "=" and whose serialization neither
\* begins nor ends with whitespace; the empty mapping is serialized as "_" and
\* parsed back as the empty mapping; a non-empty mapping is serialized in
\* ascending key order joined by "|"
C8_RoundTrip ==
  /\ C8_Serialization
  /\ (cpc = "parsed" /\ Simple(cm) /\ NoOuterSpace(cstr)) => cback = cm

\* a mapping of two keys, one of them empty, has made the round trip
C8_Witness ==
  /\ cpc = "parsed"
  /\ Simple(cm)
  /\ NoOuterSpace(cstr)
  /\ Cardinality(DOMAIN cm) = 2
  /\ KeyEmpty \in DOMAIN cm
  /\ cback = cm

\* ------------------------------------------------------------------------
\* Properties of the lookup builder (SpecLookup)
\* ------------------------------------------------------------------------
GenOf(raw) == extract_field(Strip(raw), GEN)

NumOf(raw) == extract_field(Strip(raw), NUM)

RatOf(raw) == extract_field(Strip(raw), RAT)

\* a usable analysis line: it starts with "*" once trimmed, gen, num and rat
\* are all present and none is "na"
UsableLine(raw) ==
  /\ Strip(raw) # << >>
  /\ Strip(raw)[1] = "*"
  /\ GenOf(raw) \notin {None, << "n", "a" >>}
  /\ NumOf(raw) \notin {None, << "n", "a" >>}
  /\ RatOf(raw) \notin {None, << "n", "a" >>}

DiacOf(raw) == extract_field(Strip(raw), << "d", "i", "a", "c" >>)

BwOf(raw) == extract_field(Strip(raw), << "b", "w" >>)

\* the part of the bw value before its first "/"
BeforeSlash(v) == IF Contains(v, "/") THEN SubSeq(v, 1, Find(v, "/") - 1) ELSE v

\* k is pre without its leading run of "+"
WithoutLeadingPluses(k, pre) ==
  \E n \in 0..Len(pre) :
    /\ \A j \in 1..n : pre[j] = "+"
    /\ k = SubSeq(pre, n + 1, Len(pre))
    /\ (k = << >> \/ k[1] # "+")

\* k is pre without one leading "+", if it has one
WithoutOnePlus(k, pre) ==
  IF pre # << >> /\ pre[1] = "+" THEN k = Tail(pre) ELSE k = pre

Suffixes(pre) == { SubSeq(pre, n + 1, Len(pre)) : n \in 0..Len(pre) }

\* the keys a usable line registers, all leading "+" of the bw token removed
KeysOf(raw) ==
  IF ~UsableLine(raw) THEN {}
  ELSE (IF DiacOf(raw) # None THEN { DiacOf(raw) } ELSE {})
       \cup (IF BwOf(raw) # None
             THEN { k \in Suffixes(BeforeSlash(BwOf(raw))) :
                      k # << >> /\ WithoutLeadingPluses(k, BeforeSlash(BwOf(raw))) }
             ELSE {})

\* the keys a usable line registers if one leading "+" only were removed
KeysOfOnePlus(raw) ==
  IF ~UsableLine(raw) THEN {}
  ELSE (IF DiacOf(raw) # None THEN { DiacOf(raw) } ELSE {})
       \cup (IF BwOf(raw) # None
             THEN { k \in Suffixes(BeforeSlash(BwOf(raw))) :
                      k # << >> /\ WithoutOnePlus(k, BeforeSlash(BwOf(raw))) }
             ELSE {})

\* the lines processed so far that register k
Registering(k) == { i \in 1..(mi - 1) : k \in KeysOf(magold_in[i]) }

LastOf(S) == CHOOSE i \in S : \A j \in S : j <= i

\* every key some line of the model could register
CandidateKeys == UNION { KeysOf(l) \cup KeysOfOnePlus(l) : l \in MagLineSet }

\* C7: after any number of lines, a key is in the lookup iff some usable
\* line processed so far registers it (as its diac value or as its bw token),
\* and its triple is the (gen, num, rat) of the last such line; lines that
\* are not usable analysis lines add, overwrite and remove nothing
C7_LastWriteWins ==
  pc1 \in {"build", "built"} =>
    /\ DOMAIN lookup \subseteq CandidateKeys
    /\ \A k \in CandidateKeys :
         /\ k \in DOMAIN lookup <=> Registering(k) # {}
         /\ k \in DOMAIN lookup =>
              lookup[k] = << GenOf(magold_in[LastOf(Registering(k))]),
                             NumOf(magold_in[LastOf(Registering(k))]),
                             RatOf(magold_in[LastOf(Registering(k))]) >>

\* the lookup is built, two usable lines registered the same key with
\* different triples, and the key holds the triple of the later one
C7_Witness ==
  /\ pc1 = "built"
  /\ \E k \in DOMAIN lookup :
       \E i, j \in Registering(k) :
         /\ i < j
         /\ GenOf(magold_in[i]) # GenOf(magold_in[j])
         /\ lookup[k][1] = GenOf(magold_in[j])

\* C9 as stated: a usable line registers its diac value and, independently,
\* the part of its bw value before the first "/" with exactly one leading
\* "+" removed (nothing when that token is empty): zero, one or two keys
C9_OnePlus_AsStated ==
  [][BuildLine =>
       /\ DOMAIN lookup' = DOMAIN lookup \cup KeysOfOnePlus(magold_in[mi])
       /\ Cardinality(KeysOfOnePlus(magold_in[mi])) <= 2
       /\ \A k \in KeysOfOnePlus(magold_in[mi]) :
            lookup'[k] = << GenOf(magold_in[mi]), NumOf(magold_in[mi]),
                            RatOf(magold_in[mi]) >>]_vars

\* C9 (amended): a usable line registers its diac value and, independently,
\* the part of its bw value before the first "/" with every leading "+"
\* removed (nothing when that token is empty): zero, one or two keys, each
\* bound to the line's triple
C9_AllPluses ==
  [][BuildLine =>
       /\ DOMAIN lookup' = DOMAIN lookup \cup KeysOf(magold_in[mi])
       /\ Cardinality(KeysOf(magold_in[mi])) <= 2
       /\ \A k \in KeysOf(magold_in[mi]) :
            lookup'[k] = << GenOf(magold_in[mi]), NumOf(magold_in[mi]),
                            RatOf(magold_in[mi]) >>]_vars

\* a line whose bw value starts with "++" has been processed: its key has no
\* leading "+", and the key with one "+" left is not registered
C9_Witness ==
  /\ pc1 \in {"build", "built"}
  /\ mi > 1
  /\ magold_in[mi - 1] = MagPlusPlus
  /\ << "Q" >> \in DOMAIN lookup
  /\ << "+", "Q" >> \notin DOMAIN lookup

\* ------------------------------------------------------------------------
\* Properties of the synchronizer (SpecSync)
\* ------------------------------------------------------------------------
\* the tab-separated fields of a line
Cols(ln) == Split(ln, "\t")

\* the line is a token line whose resolved key is in the lookup
Hit(ln, K) ==
  /\ ~BlankOrComment(ln)
  /\ Len(Cols(ln)) >= 10
  /\ KeyHits(choose_conllu_key(parse_misc(Cols(ln)[10])), K)

\* the triple the lookup holds for the key of a line that hits
TripleFor(ln, K) == K[choose_conllu_key(parse_misc(Cols(ln)[10]))]

\* the parsed gen, num and rat of the line already equal the lookup's triple
AlreadyEqual(ln, K) ==
  /\ Hit(ln, K)
  /\ { GEN, NUM, RAT } \subseteq DOMAIN parse_feats(Cols(ln)[6])
  /\ parse_feats(Cols(ln)[6])[GEN] = TripleFor(ln, K)[1]
  /\ parse_feats(Cols(ln)[6])[NUM] = TripleFor(ln, K)[2]
  /\ parse_feats(Cols(ln)[6])[RAT] = TripleFor(ln, K)[3]

\* C1: a rerun of the synchronizer over the output of its first run, with
\* the same lookup, updates nothing and returns the lines it was given
C1_Idempotent ==
  (pc1 = "synced" /\ run = 2) => (updated = 0 /\ out = first.out)

\* C2: a line whose key hits the lookup and whose parsed gen, num and rat
\* already equal the triple is appended to the output unchanged, with
\* matched incremented by one and updated left alone
C2_Conservative ==
  [][(SyncLine /\ AlreadyEqual(conllu_lines[si], mag_lookup)) =>
       /\ out' = Append(out, conllu_lines[si])
       /\ matched' = matched + 1
       /\ updated' = updated]_vars

\* a line that already carries the triple, in a feature column that
\* re-serialization would change, has been passed through unchanged
C2_Witness ==
  /\ pc1 = "sync"
  /\ run = 1
  /\ \E i \in 1..(si - 1) :
       /\ AlreadyEqual(conllu_lines[i], mag_lookup)
       /\ format_feats(parse_feats(Cols(conllu_lines[i])[6])) # Cols(conllu_lines[i])[6]
       /\ out[i] = conllu_lines[i]
       /\ matched >= 1

\* C3: a line whose id column contains "-" or "." yields no token record
\* and is passed through the synchronizer unchanged, whatever the lookup
C3_SpanVerbatim ==
  pc1 \in {"sync", "synced"} =>
    \A i \in 1..Len(out) :
      SkippedId(Cols(conllu_lines[i])[1]) =>
        /\ parse_token_line(conllu_lines[i]).kind = "None"
        /\ out[i] = conllu_lines[i]

\* the lines that hit the lookup among the first n
HitLines(n) == { i \in 1..n : Hit(conllu_lines[i], mag_lookup) }

\* lines a and b have the same fields but for the feature column
SameButFeats(a, b) ==
  /\ Len(Cols(a)) = Len(Cols(b))
  /\ \A c \in 1..Len(Cols(a)) : c # 6 => Cols(a)[c] = Cols(b)[c]

\* what C10 says of the counters and of the lines passed through
C10_Counters ==
  /\ Len(out) = si - 1
  /\ updated <= matched
  /\ matched <= si - 1
  /\ matched = Cardinality(HitLines(si - 1))
  /\ updated = Cardinality({ i \in HitLines(si - 1) :
                              ~AlreadyEqual(conllu_lines[i], mag_lookup) })
  /\ \A i \in 1..Len(out) :
       ~Hit(conllu_lines[i], mag_lookup) => out[i] = conllu_lines[i]

\* C10 as stated: the feature column of a rewritten line, parsed, has its
\* keys among the parsed keys of the input column and gen, num, rat, and
\* every other key keeps its value
C10_Frame_AsStated ==
  pc1 \in {"sync", "synced"} =>
    /\ C10_Counters
    /\ \A i \in 1..Len(out) :
         \/ out[i] = conllu_lines[i]
         \/ /\ SameButFeats(conllu_lines[i], out[i])
            /\ DOMAIN parse_feats(Cols(out[i])[6])
                 \subseteq DOMAIN parse_feats(Cols(conllu_lines[i])[6]) \cup { GEN, NUM, RAT }
            /\ \A k \in DOMAIN parse_feats(Cols(out[i])[6]) \ { GEN, NUM, RAT } :
                 parse_feats(Cols(out[i])[6])[k] = parse_feats(Cols(conllu_lines[i])[6])[k]

\* the feature map f with gen, num and rat bound to the triple t
Merged(f, t) ==
  [k \in DOMAIN f \cup { GEN, NUM, RAT } |->
     IF k = GEN THEN t[1] ELSE IF k = NUM THEN t[2] ELSE IF k = RAT THEN t[3] ELSE f[k]]

\* C10 (amended): after any prefix the output has one line per input line,
\* updated <= matched <= lines processed, matched counts the lines that hit
\* the lookup and updated those of them whose gen, num, rat differed, lines
\* that do not hit are passed through, and every output line equals
\* its input line or differs from it in the feature column only, which is
\* then the sorted serialization of the merged map: the parsed keys of the
\* input column united with gen, num, rat, every other key keeping its value
C10_Frame ==
  pc1 \in {"sync", "synced"} =>
    /\ C10_Counters
    /\ \A i \in 1..Len(out) :
         \/ out[i] = conllu_lines[i]
         \/ /\ SameButFeats(conllu_lines[i], out[i])
            /\ Hit(conllu_lines[i], mag_lookup)
            /\ Cols(out[i])[6] =
                 format_feats(Merged(parse_feats(Cols(conllu_lines[i])[6]),
                                     TripleFor(conllu_lines[i], mag_lookup)))

\* a line with feature keys other than gen, num, rat has been rewritten
C10_Witness ==
  /\ pc1 = "sync"
  /\ run = 1
  /\ \E i \in 1..Len(out) :
       /\ out[i] # conllu_lines[i]
       /\ DOMAIN parse_feats(Cols(conllu_lines[i])[6]) \ { GEN, NUM, RAT } # {}
       /\ updated >= 1

\* ------------------------------------------------------------------------
\* Properties of the pair extractor (SpecExtract)
\* ------------------------------------------------------------------------
\* the token records of the lines of sentence n of the file
SentenceTokens(n) ==
  { parse_token_line(read_conllu_sentences(in02_file.text)[n][j]) :
      j \in { j \in 1..Len(read_conllu_sentences(in02_file.text)[n]) :
                parse_token_line(read_conllu_sentences(in02_file.text)[n][j]).kind = "token" } }

\* row r binds a dependent and a head that are tokens of sentence n
RowOfSentence(r, n) ==
  /\ r.sent_idx = IntToStr(n)
  /\ r.deprel = MOD
  /\ \E d \in SentenceTokens(n) :
       /\ IntToStr(d.id) = r.adj_id
       /\ d.deprel = MOD
       /\ d.misc_raw = r.adj_misc
       /\ is_adj_token(d.upos, d.xpos, parse_misc_02(d.misc_raw))
       /\ IntToStr(d.head) = r.head_id
  /\ \E h \in SentenceTokens(n) :
       /\ IntToStr(h.id) = r.head_id
       /\ h.misc_raw = r.head_misc
       /\ is_noun_like(parse_misc_02(h.misc_raw), h.upos, h.xpos)

\* C4: every pair row has a dependent whose relation label is MOD and that
\* passes the adjective test, and a head_id that is the id of a token of
\* the dependent's own sentence, which passes the noun-like test
C4_PairPrecondition ==
  \A x \in 1..Len(rows) :
    \E n \in 1..Len(read_conllu_sentences(in02_file.text)) : RowOfSentence(rows[x], n)

\* the csv is written with a pair of the second sentence in it
C4_Witness ==
  /\ pc2 = "done"
  /\ \E x \in 1..Len(csv.rows) : csv.rows[x].sent_idx = << "2" >>

\* C6: no line of the tree makes the extractor raise: the only error it
\* can end in is the missing input file
C6_NeverFatal ==
  pc2 \in {"start", "checked", "reading", "parse", "pairs", "write", "writing", "done",
          "FileNotFoundError"}

\* ------------------------------------------------------------------------
\* The end-to-end example (Spec)
\* ------------------------------------------------------------------------
IsExample == conllu_in = << TokAdj, TokNoun >> /\ magold_in = << MagExample >>

GenFNumPRatI == << "g", "e", "n", "=", "f", "|", "n", "u", "m", "=", "p", "|", "r", "a", "t", "=", "i" >>

\* what the example says of the synchronizer: token 1's feature column is
\* rewritten to gen=f|num=p|rat=i, token 2 is left alone, matched and
\* updated are both 1
C5_SyncPart ==
  (IsExample /\ pc1 \in {"synced", "writing", "done"}) =>
    /\ Len(out) = 2
    /\ Cols(out[1])[6] = GenFNumPRatI
    /\ SameButFeats(out[1], TokAdj)
    /\ out[2] = TokNoun
    /\ matched = 1
    /\ updated = 1

\* script 02 has run to its end and what it read is, byte for byte, the
\* tree script 01 wrote
RanOnSyncedTree ==
  /\ pc1 = "done"
  /\ pc2 = "done"
  /\ data = sync_file.text

\* C5 as stated: on the example the extractor, run on the synchronized
\* tree, emits exactly one pair row: sentence 1, adj_id 1, head_id 2
C5_Example_AsStated ==
  /\ C5_SyncPart
  /\ (IsExample /\ RanOnSyncedTree) =>
       /\ Len(csv.rows) = 1
       /\ csv.rows[1].sent_idx = << "1" >>
       /\ csv.rows[1].adj_id = << "1" >>
       /\ csv.rows[1].head_id = << "2" >>

\* C5 (amended): on the example the synchronizer rewrites token 1's feature
\* column to gen=f|num=p|rat=i with matched = 1 and updated = 1, and the
\* extractor, run on the synchronized tree, emits no pair row
C5_Example ==
  /\ C5_SyncPart
  /\ (IsExample /\ RanOnSyncedTree) => csv.rows = << >>

\* both scripts have run to their end on the example, script 02 reading
\* the file script 01 wrote over an older tree
C5_Witness ==
  /\ IsExample
  /\ same_path
  /\ RanOnSyncedTree
  /\ in02_file = sync_file
  /\ updated = 1
  /\ csv.fieldnames = FieldNames

====
